---- MODULE Spec2Model ----
(***************************************************************************)
(* Model of dipy/denoise/gibbs.py: the TV estimator (_image_tv), the       *)
(* weight generator (_weights), the 1D sub-voxel shift search              *)
(* (_gibbs_removal_1d), the 2D combination (_gibbs_removal_2d) and the     *)
(* volume driver (gibbs_removal).                                          *)
(*                                                                         *)
(* Conventions.                                                            *)
(*  - A 2D image is a sequence of rows (axis 0), each row a sequence of    *)
(*    samples (axis 1).  Sequences are 1-based; Python indices are 0-based *)
(*    and are converted where a slice is taken.                            *)
(*  - Real samples are fixed-point integers in units of 1/Scale; an        *)
(*    integer dtype holds only multiples of Scale, and storing a real into *)
(*    an integer array truncates (numpy's unsafe cast on item assignment). *)
(*  - Shifts are integers in units of 1/100 (0.02 -> 2, ..., 0.9 -> 90).   *)
(*  - The external FFT pair is not computed: the two reconstructions of a  *)
(*    candidate shift are drawn from a bounded set of images.              *)
(***************************************************************************)
EXTENDS Integers, Sequences, FiniteSets, TLC

VARIABLES
    \* ---- TV estimator call
    tv_pc, tv_x, tv_axis, tv_n, tv_out,
    \* ---- weight generator call
    w_pc, w_shape, w_dtype, w_out,
    \* ---- volume driver call
    d_pc, vol, slice_axis, n_points, d_out,
    \* ---- 1D shift corrector call, followed by the 2D combination
    s_pc,       \* "idle", "start", "search", "done", "combined"
    s_x, s_axis, n_pts, x_dtype,   \* the arguments x, axis, n_points and x.dtype
    s_xs,       \* xs: the private, oriented copy of x
    dtypes,     \* the dtype of each working array
    tvp, tvn,   \* best positive / negative score
    isp, isn,   \* best positive / negative estimate
    sp, sn,     \* best positive / negative shift (hundredths)
    s_k,        \* number of candidates of ssamp processed
    hist,       \* history variable: the reconstructions [p, n] of the candidates
                \* processed so far (kept by SpecSearchH only)
    xc,         \* what _gibbs_removal_1d returned: [status, image, dtype]
    s_imagec    \* imagec, what _gibbs_removal_2d returned: [dtype]

tv_vars == <<tv_pc, tv_x, tv_axis, tv_n, tv_out>>
w_vars  == <<w_pc, w_shape, w_dtype, w_out>>
d_vars  == <<d_pc, vol, slice_axis, n_points, d_out>>
s_vars  == <<s_pc, s_x, s_axis, n_pts, x_dtype, s_xs, dtypes, tvp, tvn, isp, isn,
             sp, sn, s_k, hist, xc, s_imagec>>
vars    == <<tv_vars, w_vars, d_vars, s_vars>>

(***************************************************************************)
(* Bounds of the model.                                                    *)
(***************************************************************************)
TvMaxRows  == 1
TvMaxLen   == 3
TvMaxVal   == 1
MaxNPoints == 2

(***************************************************************************)
(* Arithmetic helpers.                                                     *)
(***************************************************************************)
Abs(a) == IF a < 0 THEN -a ELSE a
Min2(a, b) == IF a <= b THEN a ELSE b
Max2(a, b) == IF a >= b THEN a ELSE b

(***************************************************************************)
(* Python slicing s[a:b] of a sequence (step 1): negative bounds count     *)
(* from the end, both bounds are clamped to [0, len], an empty range       *)
(* yields the empty sequence.                                              *)
(***************************************************************************)
PyBound(i, L) == IF i < 0 THEN Max2(i + L, 0) ELSE Min2(i, L)
PySlice(s, a, b) ==
    LET lo == PyBound(a, Len(s))
        hi == PyBound(b, Len(s))
    IN  [i \in 1..Max2(hi - lo, 0) |-> s[lo + i]]
\* s[a:]
PySliceFrom(s, a) == PySlice(s, a, Len(s))

(***************************************************************************)
(* numpy broadcasting along one axis.  A result is a record                *)
(* [ok, v]; ok = FALSE stands for the ValueError numpy raises when the     *)
(* operands cannot be broadcast together.                                  *)
(***************************************************************************)
Failed == [ok |-> FALSE, v |-> <<>>]
Ok(v) == [ok |-> TRUE, v |-> v]

\* np.abs(a - b) for two rows
AbsDiff(a, b) ==
    IF Len(a) = Len(b) THEN Ok([i \in 1..Len(a) |-> Abs(a[i] - b[i])])
    ELSE IF Len(a) = 1 THEN Ok([i \in 1..Len(b) |-> Abs(a[1] - b[i])])
    ELSE IF Len(b) = 1 THEN Ok([i \in 1..Len(a) |-> Abs(a[i] - b[1])])
    ELSE Failed

\* acc += d (in place: the output operand acc cannot be broadcast)
IAdd(acc, d) ==
    IF ~acc.ok \/ ~d.ok THEN Failed
    ELSE IF Len(d.v) = Len(acc.v)
         THEN Ok([i \in 1..Len(acc.v) |-> acc.v[i] + d.v[i]])
    ELSE IF Len(d.v) = 1
         THEN Ok([i \in 1..Len(acc.v) |-> acc.v[i] + d.v[1]])
    ELSE Failed

\* np.minimum(a, b) for two rows
Minimum(a, b) ==
    IF Len(a) = Len(b) THEN Ok([i \in 1..Len(a) |-> Min2(a[i], b[i])])
    ELSE IF Len(a) = 1 THEN Ok([i \in 1..Len(b) |-> Min2(a[1], b[i])])
    ELSE IF Len(b) = 1 THEN Ok([i \in 1..Len(a) |-> Min2(a[i], b[1])])
    ELSE Failed

(***************************************************************************)
(* Images.                                                                 *)
(***************************************************************************)
NRows(x) == Len(x)
NCols(x) == IF Len(x) = 0 THEN 0 ELSE Len(x[1])
ShapeOf(x) == <<NRows(x), NCols(x)>>
\* x.transpose((1, 0))
Transpose(x) == [j \in 1..NCols(x) |-> [i \in 1..NRows(x) |-> x[i][j]]]
ImagesOf(h, w, vals) == [1..h -> [1..w -> vals]]

(***************************************************************************)
(* _image_tv, one row along axis 1.                                        *)
(***************************************************************************)
\* np.concatenate((xs[:, -n-1:], xs, xs[:, 0:n+1]), axis=1)
\* (variant that pads each end with its own samples instead of the opposite end's)
PadRowBad(r, n) == PySlice(r, 0, n + 1) \o r \o PySliceFrom(r, -n - 1)
PadRow(r, n) == PySliceFrom(r, -n - 1) \o r \o PySlice(r, 0, n + 1)

RECURSIVE PtvLoop(_, _, _, _), NtvLoop(_, _, _, _)
\* for n in range(k, n_points): ptv += |xs[np+1+n : -np-1+n] - xs[np+2+n : -np+n]|
PtvLoop(xs, np, k, acc) ==
    IF k >= np THEN acc
    ELSE PtvLoop(xs, np, k + 1,
                 IAdd(acc, AbsDiff(PySlice(xs, np + 1 + k, -np - 1 + k),
                                   PySlice(xs, np + 2 + k, -np + k))))
\* for n in range(k, n_points): ntv += |xs[np+1-n : -np-1-n] - xs[np-n : -np-2-n]|
NtvLoop(xs, np, k, acc) ==
    IF k >= np THEN acc
    ELSE NtvLoop(xs, np, k + 1,
                 IAdd(acc, AbsDiff(PySlice(xs, np + 1 - k, -np - 1 - k),
                                   PySlice(xs, np - k, -np - 2 - k))))

RowPtv(r, np) ==
    LET xs == PadRow(r, np)
    IN  PtvLoop(xs, np, 1, AbsDiff(PySlice(xs, np + 1, -np - 1),
                                   PySlice(xs, np + 2, -np)))
RowNtv(r, np) ==
    LET xs == PadRow(r, np)
    IN  NtvLoop(xs, np, 1, AbsDiff(PySlice(xs, np + 1, -np - 1),
                                   PySlice(xs, np, -np - 2)))

(***************************************************************************)
(* _image_tv(x, axis, n_points): [ok, ptv, ntv].  Every row has the same   *)
(* length, so the slices succeed or fail for all rows alike.               *)
(***************************************************************************)
ImageTV(x, axis, np) ==
    LET xs  == IF axis = 1 THEN x ELSE Transpose(x)
        p   == [i \in 1..NRows(xs) |-> RowPtv(xs[i], np)]
        m   == [i \in 1..NRows(xs) |-> RowNtv(xs[i], np)]
        ok  == \A i \in 1..NRows(xs) : p[i].ok /\ m[i].ok
        ptv == [i \in 1..NRows(xs) |-> p[i].v]
        ntv == [i \in 1..NRows(xs) |-> m[i].v]
    IN  IF ~ok THEN [ok |-> FALSE, ptv |-> <<>>, ntv |-> <<>>]
        ELSE IF axis = 1 THEN [ok |-> TRUE, ptv |-> ptv, ntv |-> ntv]
        ELSE [ok |-> TRUE, ptv |-> Transpose(ptv), ntv |-> Transpose(ntv)]

NoTv == [ok |-> FALSE, ptv |-> <<>>, ntv |-> <<>>]

(***************************************************************************)
(* Specification SpecTV: one call of _image_tv on a bounded input.         *)
(***************************************************************************)
WIdle == w_pc = "idle" /\ w_shape = <<>> /\ w_dtype = "none" /\ w_out = <<>>
TvIdle == tv_pc = "idle" /\ tv_x = <<>> /\ tv_axis = 0 /\ tv_n = 0 /\ tv_out = NoTv

TvVals == 0..TvMaxVal

TvInit ==
    /\ tv_pc = "call"
    /\ tv_axis \in {0, 1}
    /\ tv_n \in 1..MaxNPoints
    /\ \E rows \in 1..TvMaxRows, len \in 1..TvMaxLen :
          tv_x \in (IF tv_axis = 1 THEN ImagesOf(rows, len, TvVals)
                                   ELSE ImagesOf(len, rows, TvVals))
    /\ tv_out = NoTv

TvCall ==
    /\ tv_pc = "call"
    /\ tv_out' = ImageTV(tv_x, tv_axis, tv_n)
    /\ tv_pc' = "ret"
    /\ UNCHANGED <<tv_x, tv_axis, tv_n>>

DIdle ==
    /\ d_pc = "idle" /\ vol = <<>> /\ slice_axis = 0 /\ n_points = 0 /\ d_out = <<>>

SIdle ==
    /\ s_pc = "idle" /\ s_x = <<>> /\ s_axis = 0 /\ n_pts = 0 /\ x_dtype = "none"
    /\ s_xs = <<>> /\ dtypes = <<>> /\ tvp = <<>> /\ tvn = <<>> /\ isp = <<>> /\ isn = <<>>
    /\ sp = <<>> /\ sn = <<>> /\ s_k = 0 /\ hist = <<>>
    /\ xc = <<>> /\ s_imagec = <<>>

InitTV == TvInit /\ WIdle /\ DIdle /\ SIdle
NextTV == TvCall /\ UNCHANGED <<w_vars, d_vars, s_vars>>
SpecTV == InitTV /\ [][NextTV]_vars

(***************************************************************************)
(* C8.  The TV fields written as the periodic sums of the specification.   *)
(***************************************************************************)
\* length of x along the measured axis, and across it
AxisLen(x, axis) == IF axis = 1 THEN NCols(x) ELSE NRows(x)
CrossLen(x, axis) == IF axis = 1 THEN NRows(x) ELSE NCols(x)
\* sample at 0-based position i along the axis, line c (1-based) across it
At(x, axis, c, i) == IF axis = 1 THEN x[c][i + 1] ELSE x[i + 1][c]

RECURSIVE PeriodicPtv(_, _, _, _, _), PeriodicNtv(_, _, _, _, _)
\* sum over j in 0..n-1 of |x[(i+j) mod N] - x[(i+j+1) mod N]|
PeriodicPtv(x, axis, c, i, n) ==
    IF n = 0 THEN 0
    ELSE LET N == AxisLen(x, axis)
             j == n - 1
         IN  Abs(At(x, axis, c, (i + j) % N) - At(x, axis, c, (i + j + 1) % N))
             + PeriodicPtv(x, axis, c, i, n - 1)
\* sum over j in 0..n-1 of |x[(i-j) mod N] - x[(i-j-1) mod N]|
PeriodicNtv(x, axis, c, i, n) ==
    IF n = 0 THEN 0
    ELSE LET N == AxisLen(x, axis)
             j == n - 1
         IN  Abs(At(x, axis, c, (i - j) % N) - At(x, axis, c, (i - j - 1) % N))
             + PeriodicNtv(x, axis, c, i, n - 1)

\* x rotated circularly by k along the axis: result[i] = x[(i - k) mod N]
Rotate(x, axis, k) ==
    LET N == AxisLen(x, axis)
    IN  IF axis = 1
        THEN [r \in 1..NRows(x) |-> [i \in 1..N |-> x[r][((i - 1 - k) % N) + 1]]]
        ELSE [i \in 1..N |-> x[((i - 1 - k) % N) + 1]]

TvMatchesPeriodicSums ==
    /\ tv_out.ok
    /\ ShapeOf(tv_out.ptv) = ShapeOf(tv_x)
    /\ ShapeOf(tv_out.ntv) = ShapeOf(tv_x)
    /\ \A c \in 1..CrossLen(tv_x, tv_axis), i \in 0..(AxisLen(tv_x, tv_axis) - 1) :
          /\ At(tv_out.ptv, tv_axis, c, i) = PeriodicPtv(tv_x, tv_axis, c, i, tv_n)
          /\ At(tv_out.ntv, tv_axis, c, i) = PeriodicNtv(tv_x, tv_axis, c, i, tv_n)
    /\ \A k \in 0..(AxisLen(tv_x, tv_axis) - 1) :
          LET t == ImageTV(Rotate(tv_x, tv_axis, k), tv_axis, tv_n)
          IN  /\ t.ok
              /\ t.ptv = Rotate(tv_out.ptv, tv_axis, k)
              /\ t.ntv = Rotate(tv_out.ntv, tv_axis, k)

\* C8 (as claimed): for every array, axis, n_points >= 1 and position, the TV
\* estimator returns the periodic forward/backward sums, of the shape of x, and
\* rotating x rotates both fields.
C8_AsClaimed == tv_pc = "ret" => TvMatchesPeriodicSums

\* C8 (amended): the same, for arrays whose length along the measured axis is at
\* least n_points + 1, so that n_points + 1 samples can be wrapped from each end.
C8_PeriodicTV ==
    (tv_pc = "ret" /\ AxisLen(tv_x, tv_axis) >= tv_n + 1) => TvMatchesPeriodicSums

\* a returned TV of a non-constant array of the minimal length n_points + 1, axis 0,
\* whose last position has a nonzero forward sum (it exists only by wrapping)
C8_Witness ==
    /\ tv_pc = "ret"
    /\ tv_axis = 0
    /\ tv_n = 2
    /\ AxisLen(tv_x, tv_axis) = tv_n + 1
    /\ tv_out.ok
    /\ At(tv_out.ptv, tv_axis, 1, AxisLen(tv_x, tv_axis) - 1) > 0
    /\ At(tv_out.ntv, tv_axis, 1, 0) > 0
    /\ At(tv_x, tv_axis, 1, 0) # At(tv_x, tv_axis, 1, 1)

(***************************************************************************)
(* dtype classes.  "i16" stands for the 8/16-bit integers, "i64" for the   *)
(* 32/64-bit ones; "f32"/"f64" are the real floats, "c64"/"c128" the       *)
(* complex floats.                                                         *)
(***************************************************************************)
InputDTypes == {"i16", "i64", "f32", "f64"}
IsInteger(d) == d \in {"i16", "i64"}
IsRealFloat(d) == d \in {"f32", "f64"}
IsComplex(d) == d \in {"c64", "c128"}
\* np.promote_types(d, np.float32)
PromoteFloat32(d) ==
    CASE d = "i16" -> "f32"
      [] d = "i64" -> "f64"
      [] OTHER -> d

(***************************************************************************)
(* _weights.  Weights are rationals <<numerator, denominator>>; cosines    *)
(* are in thousandths.                                                     *)
(***************************************************************************)
\* 1000 * cos(2*pi*i/d), rounded, for i in 0..d
CosTurn ==
    << <<1000, 1000>>,
       <<1000, -1000, 1000>>,
       <<1000, -500, -500, 1000>>,
       <<1000, 0, -1000, 0, 1000>>,
       <<1000, 309, -809, -809, 309, 1000>>,
       <<1000, 500, -500, -1000, -500, 500, 1000>>,
       <<1000, 623, -223, -901, -901, -223, 623, 1000>>,
       <<1000, 707, 0, -707, -1000, -707, 0, 707, 1000>> >>
\* 1000 * cos(np.linspace(-pi, pi, num)[i]), i 0-based: the angle is
\* -pi + 2*pi*i/(num-1), whose cosine is -cos(2*pi*i/(num-1))
CosLinspace(i, num) == IF num = 1 THEN -1000 ELSE -CosTurn[num - 1][i + 1]
\* 1.0 + np.cos(K) in thousandths
OnePlusCos(i, num) == 1000 + CosLinspace(i, num)

Rat(a, b) == <<a, b>>
RatEq(p, q) == p[1] * q[2] = q[1] * p[2]

\* the index set of the Python slice 1:-1 of an axis of length n (0-based)
Interior(n) == 1..(n - 2)
\* the indices 0 and -1 of an axis of length n (0-based)
Ends(n) == {0, n - 1}

\* G1[1:-1, 1:-1] = cosk0 / (cosk0 + cosk1)
\* (variant with the numerator of the other weight)
InteriorG1Swapped(cosk0, cosk1) == Rat(cosk1, cosk0 + cosk1)
InteriorG1(cosk0, cosk1) == Rat(cosk0, cosk0 + cosk1)
\* G0[1:-1, 1:-1] = cosk1 / (cosk0 + cosk1)
InteriorG0(cosk0, cosk1) == Rat(cosk1, cosk0 + cosk1)

\* G1 at 0-based (i, j): zeros, then the interior, the two border columns, the corners
WeightG1(h, w, i, j) ==
    IF i \in Ends(h) /\ j \in Ends(w) THEN Rat(1, 2)
    ELSE IF i \in Interior(h) /\ j \in Ends(w) THEN Rat(1, 1)
    ELSE IF i \in Interior(h) /\ j \in Interior(w)
         THEN InteriorG1(OnePlusCos(i, h), OnePlusCos(j, w))
    ELSE Rat(0, 1)
\* G0 at 0-based (i, j): zeros, then the interior, the two border rows, the corners
WeightG0(h, w, i, j) ==
    IF i \in Ends(h) /\ j \in Ends(w) THEN Rat(1, 2)
    ELSE IF i \in Ends(h) /\ j \in Interior(w) THEN Rat(1, 1)
    ELSE IF i \in Interior(h) /\ j \in Interior(w)
         THEN InteriorG0(OnePlusCos(i, h), OnePlusCos(j, w))
    ELSE Rat(0, 1)

\* _weights(shape, image_dtype)
Weights(shape, image_dtype) ==
    [dtype |-> PromoteFloat32(image_dtype),
     G0 |-> [i \in 1..shape[1] |-> [j \in 1..shape[2] |->
                WeightG0(shape[1], shape[2], i - 1, j - 1)]],
     G1 |-> [i \in 1..shape[1] |-> [j \in 1..shape[2] |->
                WeightG1(shape[1], shape[2], i - 1, j - 1)]]]

(***************************************************************************)
(* Specification SpecWeights: one call of _weights on a bounded shape.     *)
(***************************************************************************)
WMaxDim == 4

WInit ==
    /\ w_pc = "call"
    /\ w_shape \in (1..WMaxDim) \X (1..WMaxDim)
    /\ w_dtype \in InputDTypes
    /\ w_out = <<>>

WCall ==
    /\ w_pc = "call"
    /\ w_out' = Weights(w_shape, w_dtype)
    /\ w_pc' = "ret"
    /\ UNCHANGED <<w_shape, w_dtype>>

InitWeights == WInit /\ TvIdle /\ DIdle /\ SIdle
NextWeights == WCall /\ UNCHANGED <<tv_vars, d_vars, s_vars>>
SpecWeights == InitWeights /\ [][NextWeights]_vars

\* C9 (as claimed): at every interior grid point G1 = c1/(c0+c1) and
\* G0 = c0/(c0+c1), with c0 = 1+cos(k0[i]) the row term and c1 = 1+cos(k1[j])
\* the column term.
C9_AsClaimed ==
    w_pc = "ret" =>
        \A i \in Interior(w_shape[1]), j \in Interior(w_shape[2]) :
            LET c0 == OnePlusCos(i, w_shape[1])
                c1 == OnePlusCos(j, w_shape[2])
            IN  /\ RatEq(w_out.G1[i + 1][j + 1], Rat(c1, c0 + c1))
                /\ RatEq(w_out.G0[i + 1][j + 1], Rat(c0, c0 + c1))

\* C9 (amended): at every interior grid point G1 = c0/(c0+c1) and
\* G0 = c1/(c0+c1): each weight has the OTHER axis' term as its numerator.
C9_InteriorWeights ==
    w_pc = "ret" =>
        \A i \in Interior(w_shape[1]), j \in Interior(w_shape[2]) :
            LET c0 == OnePlusCos(i, w_shape[1])
                c1 == OnePlusCos(j, w_shape[2])
            IN  /\ c0 + c1 > 0
                /\ RatEq(w_out.G1[i + 1][j + 1], Rat(c0, c0 + c1))
                /\ RatEq(w_out.G0[i + 1][j + 1], Rat(c1, c0 + c1))

\* returned weights of a 3 x 4 grid, whose interior points have c0 # c1
C9_Witness ==
    /\ w_pc = "ret"
    /\ w_shape = <<3, 4>>
    /\ \E i \in Interior(w_shape[1]), j \in Interior(w_shape[2]) :
          /\ OnePlusCos(i, w_shape[1]) # OnePlusCos(j, w_shape[2])
          /\ ~RatEq(w_out.G1[i + 1][j + 1], w_out.G0[i + 1][j + 1])

(***************************************************************************)
(* Volumes.  A volume is [shape, dtype, tracked, data]: shape a sequence   *)
(* of extents, data a function from 0-based index tuples to voxel values.  *)
(* Where only shapes and dtypes matter the voxel values are left out       *)
(* (tracked = FALSE, data = <<>>).                                         *)
(***************************************************************************)
RECURSIVE Indices(_)
Indices(shape) ==
    IF shape = <<>> THEN {<<>>}
    ELSE {<<i>> \o t : i \in 0..(shape[1] - 1), t \in Indices(Tail(shape))}

Rank(v) == Len(v.shape)

\* a sequence with the entries at 0-based positions a and b exchanged
SwapSeq(q, a, b) ==
    [k \in 1..Len(q) |-> IF k = a + 1 THEN q[b + 1]
                         ELSE IF k = b + 1 THEN q[a + 1] ELSE q[k]]

\* np.swapaxes(v, a, b)
SwapAxes(v, a, b) ==
    [shape |-> SwapSeq(v.shape, a, b),
     dtype |-> v.dtype,
     tracked |-> v.tracked,
     data  |-> IF ~v.tracked THEN <<>>
               ELSE [idx \in Indices(SwapSeq(v.shape, a, b)) |->
                       v.data[SwapSeq(idx, a, b)]]]

\* v.reshape((s[0], s[1], s[2] * s[3])) of a rank-4 volume (C order)
Flatten(v) ==
    LET s == v.shape
        t == <<s[1], s[2], s[3] * s[4]>>
    IN  [shape |-> t,
         dtype |-> v.dtype,
         tracked |-> v.tracked,
         data  |-> IF ~v.tracked THEN <<>>
                   ELSE [idx \in Indices(t) |->
                           v.data[<<idx[1], idx[2], idx[3] \div s[4], idx[3] % s[4]>>]]]

\* v.reshape(inishap) of the rank-3 batch back to rank 4 (C order)
\* (variant that reads the batch index in column-major order)
UnflattenColumnMajor(v, inishap) ==
    [shape |-> inishap,
     dtype |-> v.dtype,
     tracked |-> v.tracked,
     data  |-> IF ~v.tracked THEN <<>>
               ELSE [idx \in Indices(inishap) |->
                       v.data[<<idx[1], idx[2], idx[4] * inishap[3] + idx[3]>>]]]
Unflatten(v, inishap) ==
    [shape |-> inishap,
     dtype |-> v.dtype,
     tracked |-> v.tracked,
     data  |-> IF ~v.tracked THEN <<>>
               ELSE [idx \in Indices(inishap) |->
                       v.data[<<idx[1], idx[2], idx[3] * inishap[4] + idx[4]>>]]]

(***************************************************************************)
(* How a call of _gibbs_removal_1d ends, from the length N of the          *)
(* corrected axis, the dtype and n_points.                                 *)
(*   "ValueError": a slice difference inside _image_tv cannot be broadcast *)
(*   "IndexError": the TV fields are not of the image's shape, so the      *)
(*                 boolean masks do not fit isp/sp/tvp (line 146)          *)
(*   "TypeError" : tmp /= ... on an integer array (line 163)               *)
(***************************************************************************)
ZeroRow(N) == [i \in 1..N |-> 0]
Gibbs1DStatus(N, dtype, np) ==
    LET tv == ImageTV(<<ZeroRow(N)>>, 1, np)
    IN  IF ~tv.ok THEN "ValueError"
        ELSE IF ~Minimum(tv.ptv[1], tv.ntv[1]).ok THEN "ValueError"
        ELSE IF Len(Minimum(tv.ptv[1], tv.ntv[1]).v) # N THEN "IndexError"
        ELSE IF IsInteger(dtype) THEN "TypeError"
        ELSE "ok"

\* the complex dtype of fft2/ifft2 of an array of dtype d (scipy.fft keeps
\* single precision)
ComplexOf(d) == IF d \in {"f32", "c64"} THEN "c64" ELSE "c128"
\* the dtype of np.abs(a) where a is complex
AbsOf(d) == IF d = "c64" THEN "f32" ELSE IF d = "c128" THEN "f64" ELSE d
\* the dtype of a * b
MulDType(a, b) ==
    IF a = "c128" \/ b = "c128" \/ (IsComplex(a) /\ b = "f64") \/ (IsComplex(b) /\ a = "f64")
    THEN "c128"
    ELSE IF IsComplex(a) \/ IsComplex(b) THEN "c64"
    ELSE IF a = "f64" \/ b = "f64" THEN "f64" ELSE "f32"

\* dtype of the array _gibbs_removal_2d returns (lines 275-282): imagec is the
\* complex product fftshift(C1) * G1, and np.abs(imagec, out=imagec) writes the
\* magnitudes back into that complex array
Gibbs2DReturnDType(image_dtype, g_dtype) ==
    LET C1     == ComplexOf(image_dtype)
        imagec == ComplexOf(MulDType(C1, g_dtype))
    IN  imagec

(***************************************************************************)
(* _gibbs_removal_2d on a rank-2 image or rank-3 batch, weights supplied.  *)
(* The FFT pair is external: the corrected sample at (i, j) of one 2D      *)
(* image is an uninterpreted value of that image, the position, n_points   *)
(* and the weights' shape and dtype.  fft2/ifft2 run over axes (0, 1) and  *)
(* every other step is elementwise or along axis 0/1, so the image is the  *)
(* plane of the batch with the same trailing index.                        *)
(***************************************************************************)
Plane(v, rest) ==
    [p \in Indices(<<v.shape[1], v.shape[2]>>) |-> v.data[p \o rest]]

Gibbs2DStatus(v, np) ==
    IF Rank(v) \notin {2, 3} THEN "InvalidRank"
    ELSE LET c1 == Gibbs1DStatus(v.shape[2], v.dtype, np)
             c0 == Gibbs1DStatus(v.shape[1], v.dtype, np)
         IN  IF c1 # "ok" THEN c1 ELSE c0

Gibbs2D(v, np, G) ==
    [shape |-> v.shape,
     dtype |-> Gibbs2DReturnDType(v.dtype, G.dtype),
     tracked |-> v.tracked,
     data  |-> IF ~v.tracked THEN <<>>
               ELSE [idx \in Indices(v.shape) |->
                       [image |-> Plane(v, SubSeq(idx, 3, Len(idx))),
                        at |-> <<idx[1], idx[2]>>,
                        n_points |-> np,
                        weights |-> <<G.shape, G.dtype>>]]]

(***************************************************************************)
(* gibbs_removal(vol, slice_axis, n_points): [status, called2d, vol].      *)
(***************************************************************************)
NoVol == [shape |-> <<>>, dtype |-> "none", tracked |-> FALSE, data |-> <<>>]
Raise(e, called) == [status |-> e, called2d |-> called, vol |-> NoVol]

\* line 325: if slice_axis > 2: raise
\* (variant that lets slice_axis = 3 through)
SliceAxisRejectedLax(axis) == axis > 3
SliceAxisRejected(axis) == axis > 2

\* lines 357-358: the swap back into the original axis order
\* (variant that leaves the axes swapped)
SwapBackMissing(v, nd, axis) == v
SwapBack(v, nd, axis) ==
    IF axis < 2 /\ nd > 2 THEN SwapAxes(v, axis, 2) ELSE v

GibbsRemoval(v0, axis, np) ==
    LET nd == Rank(v0)
        v1 == IF axis < 2 /\ nd > 2 THEN SwapAxes(v0, axis, 2) ELSE v0
        inishap == v1.shape
        v2 == IF nd = 4 THEN Flatten(v1) ELSE v1
        G  == [shape |-> <<v2.shape[1], v2.shape[2]>>,
               dtype |-> PromoteFloat32(v2.dtype)]
        st == Gibbs2DStatus(v2, np)
        v3 == Gibbs2D(v2, np, G)
        v4 == IF nd = 4 THEN Unflatten(v3, inishap) ELSE v3
    IN  IF SliceAxisRejected(axis) THEN Raise("InvalidSliceAxis", FALSE)
        ELSE IF nd > 4 THEN Raise("InvalidRank", FALSE)
        ELSE IF nd < 2 THEN Raise("InvalidRank", FALSE)
        ELSE IF st # "ok" THEN Raise(st, TRUE)
        ELSE [status |-> "ok", called2d |-> TRUE, vol |-> SwapBack(v4, nd, axis)]

(***************************************************************************)
(* Specification SpecDriver: one call of gibbs_removal on a volume of      *)
(* bounded shape.  Voxel values are not tracked (vol.tracked = FALSE): the *)
(* state keeps the shape, the dtype and how the call ended.                *)
(* Specification SpecBatch: the same call on small rank-4 volumes whose    *)
(* voxels are tracked: each voxel's value is its own index tuple.          *)
(***************************************************************************)
MaxRank      == 5
MaxExtent    == 6
MaxTrail     == 2
MaxSliceAxis == 3
DMaxNPoints  == 1
BMaxExtent   == 2

\* shapes of rank r: the first three extents up to MaxExtent, the fourth up to
\* MaxTrail, the others 1 (a rank above 4 is rejected without reading an extent)
RECURSIVE ShapesFrom(_, _)
ShapesFrom(k, r) ==
    IF k > r THEN {<<>>}
    ELSE {<<e>> \o t : e \in 1..(IF k <= 3 THEN MaxExtent
                                  ELSE IF k = 4 THEN MaxTrail ELSE 1),
                       t \in ShapesFrom(k + 1, r)}
Shapes(r) == ShapesFrom(1, r)

Untracked(shape, dtype) ==
    [shape |-> shape, dtype |-> dtype, tracked |-> FALSE, data |-> <<>>]
Labelled(shape, dtype) ==
    [shape |-> shape, dtype |-> dtype, tracked |-> TRUE,
     data |-> [idx \in Indices(shape) |-> idx]]

DInit ==
    /\ d_pc = "call"
    /\ \E r \in 0..MaxRank, dt \in InputDTypes :
          \E sh \in Shapes(r) : vol = Untracked(sh, dt)
    /\ slice_axis \in 0..MaxSliceAxis
    /\ n_points \in 1..DMaxNPoints
    /\ d_out = <<>>

BInit ==
    /\ d_pc = "call"
    /\ \E sh \in [1..4 -> 1..BMaxExtent], dt \in InputDTypes :
          vol = Labelled(sh, dt)
    /\ slice_axis \in 0..2
    /\ n_points \in 1..DMaxNPoints
    /\ d_out = <<>>

DCall ==
    /\ d_pc = "call"
    /\ \E r \in {GibbsRemoval(vol, slice_axis, n_points)} :
           d_out' = [status   |-> r.status,
                     called2d |-> r.called2d,
                     shape    |-> r.vol.shape,
                     dtype    |-> r.vol.dtype,
                     data     |-> r.vol.data]
    /\ d_pc' = "ret"
    /\ UNCHANGED <<vol, slice_axis, n_points>>

InitDriver == DInit /\ TvIdle /\ WIdle /\ SIdle
NextDriver == DCall /\ UNCHANGED <<tv_vars, w_vars, s_vars>>
SpecDriver == InitDriver /\ [][NextDriver]_vars

InitBatch == BInit /\ TvIdle /\ WIdle /\ SIdle
NextBatch == DCall /\ UNCHANGED <<tv_vars, w_vars, s_vars>>
SpecBatch == InitBatch /\ [][NextBatch]_vars

Errors == {"InvalidSliceAxis", "InvalidRank"}

\* C1: a call with slice_axis > 2 or a rank outside {2,3,4} ends in
\* InvalidSliceAxis / InvalidRank, returns no volume and never invokes the
\* 2D corrector.
C1_Rejects ==
    (d_pc = "ret" /\ (slice_axis > 2 \/ Rank(vol) \notin {2, 3, 4})) =>
        /\ d_out.status \in Errors
        /\ d_out.shape = <<>> /\ d_out.dtype = "none" /\ d_out.data = <<>>
        /\ ~d_out.called2d

\* a rejected call with both conditions at once: rank 5 and slice_axis 3
C1_Witness ==
    /\ d_pc = "ret" /\ slice_axis = 3 /\ Rank(vol) = 5
    /\ d_out.status \in Errors

\* the extents of the 2D images the corrector works on: axes 0 and 1 after the
\* slice axis has been swapped into position 2
InPlane(shape, axis) ==
    LET s == IF axis < 2 /\ Len(shape) > 2 THEN SwapSeq(shape, axis, 2) ELSE shape
    IN  <<s[1], s[2]>>
ValidCall == Rank(vol) \in {2, 3, 4} /\ slice_axis \in {0, 1, 2}
MinInPlane == Min2(InPlane(vol.shape, slice_axis)[1], InPlane(vol.shape, slice_axis)[2])

\* C2: a valid call whose in-plane extent along axis 0 or 1 is below
\* 2*(n_points+1)+2 is rejected with an explicit DegenerateShape error: it
\* neither returns a volume nor ends in an incidental error.
C2_DegenerateRejected ==
    (d_pc = "ret" /\ ValidCall /\ MinInPlane < 2 * (n_points + 1) + 2) =>
        d_out.status = "DegenerateShape"

\* C3: a valid call whose in-plane extents leave room for the neighbour window
\* (at least n_points + 1 samples, which every extent >= 2*(n_points+1)+2 has)
\* returns, for a real floating input, and whatever it returns has the shape
\* of the input.
C3_ShapePreserved ==
    (d_pc = "ret" /\ ValidCall /\ MinInPlane >= n_points + 1) =>
        /\ d_out.status = "ok" => d_out.shape = vol.shape
        /\ IsRealFloat(vol.dtype) => d_out.status = "ok"

\* a returned rank-4 volume with the slice axis at 0, extents that differ, and
\* in-plane extents of at least 2*(n_points+1)+2
C3_Witness ==
    /\ d_pc = "ret" /\ Rank(vol) = 4 /\ slice_axis = 0
    /\ d_out.status = "ok"
    /\ vol.shape[1] # vol.shape[3] /\ vol.shape[4] > 1
    /\ MinInPlane >= 2 * (n_points + 1) + 2

\* the rank-3 sub-volume vol[..., g]
SubVolume(v, g) ==
    LET sh == SubSeq(v.shape, 1, 3)
    IN  [shape |-> sh, dtype |-> v.dtype, tracked |-> v.tracked,
         data |-> [idx \in Indices(sh) |-> v.data[idx \o <<g>>]]]

\* C5: the result on a rank-4 volume equals, for each gradient direction g, the
\* result on the sub-volume vol[..., g] with the same slice_axis and n_points.
C5_BatchConsistent ==
    (d_pc = "ret" /\ Rank(vol) = 4 /\ vol.tracked) =>
        \A g \in 0..(vol.shape[4] - 1) :
            LET r == GibbsRemoval(SubVolume(vol, g), slice_axis, n_points)
            IN  /\ r.status = d_out.status
                /\ d_out.status = "ok" =>
                      /\ r.vol.shape = SubSeq(d_out.shape, 1, 3)
                      /\ r.vol.dtype = d_out.dtype
                      /\ \A idx \in Indices(r.vol.shape) :
                            d_out.data[idx \o <<g>>] = r.vol.data[idx]

\* a returned rank-4 volume with several slices and several gradient
\* directions, the slice axis at 0
C5_Witness ==
    /\ d_pc = "ret" /\ Rank(vol) = 4 /\ vol.tracked
    /\ d_out.status = "ok" /\ slice_axis = 0
    /\ vol.shape[1] > 1 /\ vol.shape[4] > 1

(***************************************************************************)
(* _gibbs_removal_1d.                                                      *)
(***************************************************************************)
\* fixed-point resolution: a real sample v stands for v / Scale
Scale      == 2
\* largest input sample and largest reconstructed sample (in units of 1/Scale)
XMaxVal    == 2
CandMaxVal == 1
\* candidates of ssamp the model processes before the loop is cut
MaxCand    == 2

\* ssamp = np.linspace(0.02, 0.9, num=45): 45 shifts, the i-th (from 1) is 0.02 * i
NumShifts == 45
Ssamp(i) == 2 * i

\* storing the real v into an array of dtype d (item assignment casts unsafely:
\* an integer array keeps the integer part)
Cast(d, v) == IF IsInteger(d) THEN (v \div Scale) * Scale ELSE v

Zeros(shape) == [r \in 1..shape[1] |-> [c \in 1..shape[2] |-> 0]]

\* tvsr, tvsl = _image_tv(img, axis=1, n_points); np.minimum(tvsr, tvsl)
Score(img, np) ==
    LET tv == ImageTV(img, 1, np)
        m  == [r \in 1..NRows(img) |-> Minimum(tv.ptv[r], tv.ntv[r])]
    IN  IF ~tv.ok \/ \E r \in 1..NRows(img) : ~m[r].ok
        THEN Failed
        ELSE Ok([r \in 1..NRows(img) |-> m[r].v])

\* mask = best > score (lines 142-143)
Mask(best, score) ==
    [r \in 1..NRows(best) |-> [c \in 1..NCols(best) |-> best[r][c] > score[r][c]]]

\* dst[mask] = src, dst of dtype d
MaskAssign(dst, mask, src, d) ==
    [r \in 1..NRows(dst) |-> [c \in 1..NCols(dst) |->
        IF mask[r][c] THEN Cast(d, src[r][c]) ELSE dst[r][c]]]
\* dst[mask] = s, a scalar
MaskFill(dst, mask, s) ==
    [r \in 1..NRows(dst) |-> [c \in 1..NCols(dst) |->
        IF mask[r][c] THEN s ELSE dst[r][c]]]

\* lines 160-165 for one voxel of idx, in exact rational arithmetic:
\* tmp = isp - isn; tmp /= sp + sn; tmp *= sn; tmp += isn
\* (variant that multiplies by the positive shift sp instead of sn)
InterpVoxelBySp(ip, in, p, n) ==
    LET t1 == Rat(ip - in, 1)
        t2 == Rat(t1[1], t1[2] * (p + n))
        t3 == Rat(t2[1] * p, t2[2])
    IN  Rat(t3[1] + in * t3[2], t3[2])
InterpVoxel(ip, in, p, n) ==
    LET t1 == Rat(ip - in, 1)
        t2 == Rat(t1[1], t1[2] * (p + n))
        t3 == Rat(t2[1] * n, t2[2])
    IN  Rat(t3[1] + in * t3[2], t3[2])

\* lines 156-166: xs[idx] = tmp where idx = np.nonzero(sp + sn)
Interpolate(img, ip, in, p, n) ==
    [r \in 1..NRows(img) |-> [c \in 1..NCols(img) |->
        IF p[r][c] + n[r][c] # 0
        THEN InterpVoxel(ip[r][c], in[r][c], p[r][c], n[r][c])
        ELSE Rat(img[r][c], 1)]]

NoResult == [status |-> "none", image |-> <<>>, dtype |-> "none"]
Raised(e) == [status |-> e, image |-> <<>>, dtype |-> "none"]

(***************************************************************************)
(* Specification SpecSearch: one call of _gibbs_removal_1d on a line of    *)
(* n_points + 1 samples, the least the neighbour window allows, followed   *)
(* by the combination step of _gibbs_removal_2d.  SpecSearchH is the same  *)
(* with the history variable hist.                                         *)
(***************************************************************************)
XVals(d) == IF IsInteger(d) THEN {v \in 0..XMaxVal : v % Scale = 0} ELSE 0..XMaxVal
CandVals == 0..CandMaxVal

\* the dtype classes SpecSearch starts from: one integer, one real floating dtype
\* (SpecSearchH starts from every dtype of InputDTypes)
SearchDTypes == {"i64", "f64"}

SInit(dts) ==
    /\ s_pc = "start"
    /\ s_axis \in {0, 1}
    /\ n_pts = 1
    /\ x_dtype \in dts
    /\ s_x \in (IF s_axis = 1 THEN ImagesOf(1, n_pts + 1, XVals(x_dtype))
                              ELSE ImagesOf(n_pts + 1, 1, XVals(x_dtype)))
    /\ s_xs = <<>> /\ dtypes = <<>> /\ tvp = <<>> /\ tvn = <<>> /\ isp = <<>> /\ isn = <<>>
    /\ sp = <<>> /\ sn = <<>> /\ s_k = 0 /\ hist = <<>>
    /\ xc = NoResult /\ s_imagec = <<>>

\* lines 95-122: the oriented copy, the baseline scores, the accumulators
SBaseline ==
    /\ s_pc = "start"
    /\ LET float_dtype == PromoteFloat32(x_dtype)
           xs0 == IF s_axis = 1 THEN s_x ELSE Transpose(s_x)
           tv0 == Score(xs0, n_pts)
       IN  IF ~tv0.ok
           THEN /\ s_pc' = "done"
                /\ xc' = Raised("ValueError")
                /\ UNCHANGED <<s_xs, dtypes, tvp, tvn, isp, isn, sp, sn>>
           ELSE /\ s_pc' = "search"
                /\ s_xs' = xs0
                /\ tvp' = tv0.v
                /\ tvn' = tv0.v
                /\ isp' = xs0
                /\ isn' = xs0
                /\ sp' = Zeros(ShapeOf(xs0))
                /\ sn' = Zeros(ShapeOf(xs0))
                /\ dtypes' = [xs |-> x_dtype, tvp |-> x_dtype, tvn |-> x_dtype,
                              isp |-> x_dtype, isn |-> x_dtype,
                              sp |-> float_dtype, sn |-> float_dtype,
                              c |-> ComplexOf(x_dtype)]
                /\ xc' = xc
    /\ UNCHANGED <<s_x, s_axis, n_pts, x_dtype, s_k, hist, s_imagec>>

\* lines 123-153: one iteration of "for s in ssamp", where img_p and img_n are
\* the two reconstructions |ifft2(c * eks)| and |ifft2(c * conj(eks))|
LoopBody(img_p, img_n) ==
    /\ s_pc = "search"
    /\ s_k < NumShifts /\ s_k < MaxCand
    /\ \E s \in {Ssamp(s_k + 1)},
          tvs_p \in {Score(img_p, n_pts)}, tvs_n \in {Score(img_n, n_pts)} :
          /\ s_k' = s_k + 1
          /\ IF ~tvs_p.ok \/ ~tvs_n.ok
             THEN /\ s_pc' = "done" /\ xc' = Raised("ValueError")
                  /\ UNCHANGED <<tvp, tvn, isp, isn, sp, sn>>
             ELSE IF ShapeOf(tvs_p.v) # ShapeOf(isp)
             THEN /\ s_pc' = "done" /\ xc' = Raised("IndexError")
                  /\ UNCHANGED <<tvp, tvn, isp, isn, sp, sn>>
             ELSE \E maskp \in {Mask(tvp, tvs_p.v)}, maskn \in {Mask(tvn, tvs_n.v)} :
                  /\ isp' = MaskAssign(isp, maskp, img_p, dtypes.isp)
                  /\ sp'  = MaskFill(sp, maskp, s)
                  /\ tvp' = MaskAssign(tvp, maskp, tvs_p.v, dtypes.tvp)
                  /\ isn' = MaskAssign(isn, maskn, img_n, dtypes.isn)
                  /\ sn'  = MaskFill(sn, maskn, s)
                  /\ tvn' = MaskAssign(tvn, maskn, tvs_n.v, dtypes.tvn)
                  /\ UNCHANGED <<s_pc, xc>>
    /\ UNCHANGED <<s_x, s_axis, n_pts, x_dtype, s_xs, dtypes, s_imagec>>

CandImages == ImagesOf(NRows(s_xs), NCols(s_xs), CandVals)

\* the iteration, for whatever the FFT pair reconstructs
SCandidate ==
    /\ s_pc = "search"
    /\ \E img_p \in CandImages, img_n \in CandImages : LoopBody(img_p, img_n)
    /\ UNCHANGED hist

\* the same iteration, the history variable recording the reconstructions
SCandidateH ==
    /\ s_pc = "search"
    /\ \E img_p \in CandImages, img_n \in CandImages :
          LoopBody(img_p, img_n) /\ hist' = Append(hist, [p |-> img_p, n |-> img_n])

\* lines 155-170: the interpolation and the return; tmp has the dtype of isp,
\* and "tmp /= ..." cannot write a real quotient into an integer array
SInterpolate ==
    /\ s_pc = "search"
    /\ s_k = NumShifts \/ s_k = MaxCand
    /\ s_pc' = "done"
    /\ xc' = IF IsInteger(dtypes.isp) THEN Raised("TypeError")
             ELSE LET out == Interpolate(s_xs, isp, isn, sp, sn)
                  IN  [status |-> "ok",
                       image  |-> IF s_axis = 1 THEN out ELSE Transpose(out),
                       dtype  |-> dtypes.xs]
    /\ UNCHANGED <<s_x, s_axis, n_pts, x_dtype, s_xs, dtypes, tvp, tvn, isp, isn,
                   sp, sn, s_k, hist, s_imagec>>

\* lines 275-282 of _gibbs_removal_2d, on the dtype of what the 1D pass returned
SCombine ==
    /\ s_pc = "done"
    /\ xc.status = "ok"
    /\ s_pc' = "combined"
    /\ s_imagec' = [dtype |-> Gibbs2DReturnDType(xc.dtype, PromoteFloat32(x_dtype))]
    /\ UNCHANGED <<s_x, s_axis, n_pts, x_dtype, s_xs, dtypes, tvp, tvn, isp, isn,
                   sp, sn, s_k, hist, xc>>

InitSearch == SInit(SearchDTypes) /\ TvIdle /\ WIdle /\ DIdle
NextSearch ==
    (SBaseline \/ SCandidate \/ SInterpolate \/ SCombine)
        /\ UNCHANGED <<tv_vars, w_vars, d_vars>>
SpecSearch == InitSearch /\ [][NextSearch]_vars

InitSearchH == SInit(InputDTypes) /\ TvIdle /\ WIdle /\ DIdle
NextSearchH ==
    (SBaseline \/ SCandidateH \/ SInterpolate \/ SCombine)
        /\ UNCHANGED <<tv_vars, w_vars, d_vars>>
SpecSearchH == InitSearchH /\ [][NextSearchH]_vars

(***************************************************************************)
(* Properties of the search and of the interpolation.                      *)
(***************************************************************************)
\* the search has set up its accumulators (lines 105-113 have run without raising)
Searching == s_pc = "search" \/ (s_pc \in {"done", "combined"} /\ xc.status \in {"ok", "TypeError"})
\* the 1D corrector has returned
Returned == s_pc \in {"done", "combined"} /\ xc.status = "ok"
Voxels == {rc \in (1..NRows(s_xs)) \X (1..NCols(s_xs)) : TRUE}

\* the baseline score and the scores of the candidates processed so far, as
\* the code computes them (real values, before any store)
Baseline == Score(s_xs, n_pts).v
PosScore(i) == Score(hist[i].p, n_pts).v
NegScore(i) == Score(hist[i].n, n_pts).v
Processed == 1..Len(hist)

\* the output of the 1D corrector in the orientation of the accumulators
XcOriented == IF s_axis = 1 THEN xc.image ELSE Transpose(xc.image)

\* C10: after the search the output of a voxel whose two best shifts are zero
\* is the original value; otherwise it is
\* isn + (isp - isn) * sn / (sp + sn); when exactly one best shift is nonzero
\* this is the estimate of the direction whose shift is zero, the original
\* value, so the output differs from the original only if both are nonzero.
C10_Interpolation ==
    Returned =>
        \A rc \in Voxels :
            LET r == rc[1]
                c == rc[2]
                out  == XcOriented[r][c]
                orig == Rat(s_xs[r][c], 1)
                p == sp[r][c]
                n == sn[r][c]
            IN  /\ (p = 0 /\ n = 0) => RatEq(out, orig)
                /\ (p + n # 0) =>
                       RatEq(out, Rat(isn[r][c] * (p + n) + (isp[r][c] - isn[r][c]) * n,
                                      p + n))
                /\ (p # 0 /\ n = 0) =>
                       RatEq(out, Rat(isn[r][c], 1)) /\ RatEq(out, orig)
                /\ (p = 0 /\ n # 0) =>
                       RatEq(out, Rat(isp[r][c], 1)) /\ RatEq(out, orig)
                /\ ~RatEq(out, orig) => (p # 0 /\ n # 0)

\* a returned line with a voxel whose positive shift alone is nonzero and whose
\* shifted estimate differs from the original value
C10_Witness ==
    /\ Returned
    /\ \E rc \in Voxels :
          /\ sp[rc[1]][rc[2]] # 0 /\ sn[rc[1]][rc[2]] = 0
          /\ isp[rc[1]][rc[2]] # s_xs[rc[1]][rc[2]]

\* C4: for every input dtype class every image the pipeline holds or returns
\* is real floating point: the best-estimate and best-score arrays and the
\* output of the 1D corrector are not stored in the integer type of the input,
\* a stored candidate value is not truncated, and the array the 2D corrector
\* returns is not of a complex dtype class.
C4_RealFloatingImages ==
    /\ Searching =>
          /\ \A a \in {"xs", "isp", "isn", "tvp", "tvn"} : IsRealFloat(dtypes[a])
          /\ \A rc \in Voxels :
                /\ sp[rc[1]][rc[2]] # 0 =>
                      \E i \in Processed : isp[rc[1]][rc[2]] = hist[i].p[rc[1]][rc[2]]
                /\ sn[rc[1]][rc[2]] # 0 =>
                      \E i \in Processed : isn[rc[1]][rc[2]] = hist[i].n[rc[1]][rc[2]]
    /\ (s_pc \in {"done", "combined"} /\ Len(hist) > 0) => xc.status = "ok"
    /\ Returned => IsRealFloat(xc.dtype)
    /\ s_pc = "combined" => IsRealFloat(s_imagec.dtype)

\* the least of a nonempty finite set of integers
MinOf(S) == CHOOSE v \in S : \A w \in S : v <= w

\* C6, for one direction: the best score of every voxel is the minimum of the
\* baseline score and the scores of the candidates processed so far
BestIsMinimum(best, score(_)) ==
    \A rc \in Voxels :
        best[rc[1]][rc[2]] =
            MinOf({Baseline[rc[1]][rc[2]]} \cup {score(i)[rc[1]][rc[2]] : i \in Processed})

\* C6: after every prefix of the candidates the best positive score is the
\* minimum of the baseline score and the positive scores processed so far, and
\* likewise the best negative score; both are at most the baseline score.
C6_BestScoreIsMinimum ==
    Searching =>
        /\ BestIsMinimum(tvp, PosScore)
        /\ BestIsMinimum(tvn, NegScore)
        /\ \A rc \in Voxels :
              /\ tvp[rc[1]][rc[2]] <= Baseline[rc[1]][rc[2]]
              /\ tvn[rc[1]][rc[2]] <= Baseline[rc[1]][rc[2]]

\* C7, for one direction and one voxel: value, shift and score are the original
\* value, 0 and the baseline when no processed candidate scored strictly below
\* the baseline, and otherwise those of the earliest candidate whose score is
\* the minimum over the processed candidates
FromOneCandidate(rc, value, shift, best, cand(_), score(_)) ==
    LET r == rc[1]
        c == rc[2]
        better == {i \in Processed : score(i)[r][c] < Baseline[r][c]}
    IN  IF better = {}
        THEN /\ shift[r][c] = 0
             /\ value[r][c] = s_xs[r][c]
             /\ best[r][c] = Baseline[r][c]
        ELSE LET m == MinOf({score(i)[r][c] : i \in Processed})
                 i == MinOf({j \in Processed : score(j)[r][c] = m})
             IN  /\ shift[r][c] = Ssamp(i)
                 /\ value[r][c] = cand(i)[r][c]
                 /\ best[r][c] = m
PosCand(i) == hist[i].p
NegCand(i) == hist[i].n

\* C7: after every candidate the three positive accumulators of every voxel
\* come from one candidate, the earliest that attains the minimum score when
\* one scored strictly below the baseline, and the same holds for the negative
\* accumulators from the negative candidates alone.
C7_AccumulatorsFromOneCandidate ==
    Searching =>
        \A rc \in Voxels :
            /\ FromOneCandidate(rc, isp, sp, tvp, PosCand, PosScore)
            /\ FromOneCandidate(rc, isn, sn, tvn, NegCand, NegScore)

\* for an input of a real floating dtype the search keeps both properties
C6_ForRealFloat == IsRealFloat(x_dtype) => C6_BestScoreIsMinimum
C7_ForRealFloat == IsRealFloat(x_dtype) => C7_AccumulatorsFromOneCandidate

====
